---- MODULE Spec2Model ----
(***************************************************************************)
(* Verification model of src/app.py (ALIO research-report summariser).     *)
(*                                                                         *)
(* The program is single-threaded and synchronous.  Every function the     *)
(* claims are about is a small state machine over its own variables:       *)
(*   pr_  probe_report_list_api         dp_  probe_detail_api_for_pdf      *)
(*   sm_  summarize_kwater_standard_a   ck_  chunk_text                    *)
(*   js_  extract_list_from_json                                           *)
(* and the two button handlers of the page (h1_, h2_) run them over the    *)
(* session state (st_).                                                    *)
(*                                                                         *)
(*   Spec        one browser session: both handlers, any number of clicks  *)
(*   SpecProbe   probe_report_list_api alone                               *)
(*   SpecDetail  probe_detail_api_for_pdf alone, over all argument shapes  *)
(*   SpecSum     summarize_kwater_standard_a alone, over all texts         *)
(*   SpecChunk   chunk_text, one loop iteration per step                   *)
(*   SpecJson    extract_list_from_json applied to bounded JSON values     *)
(*                                                                         *)
(* Texts are sequences of one-character strings.  Optional[str] values     *)
(* use NoneStr for None.                                                   *)
(***************************************************************************)
EXTENDS Integers, Sequences, FiniteSets, TLC

VARIABLES
    st_probe,       \* st.session_state.probe
    st_candidates,  \* st.session_state.candidates
    has_key,        \* OPENAI_API_KEY is set in secrets/env
    h1_pc,          \* list handler: "idle" | "probe" | "fetch_list" | "done"
    h1_msg,         \* list handler: outcome of the run
    h2_pc,          \* summarize handler: position
    h2_cand,        \* summarize handler: cand
    h2_pdf_url,     \* summarize handler: pdf_url
    h2_text,        \* summarize handler: text
    h2_net,         \* summarize handler: kinds of network requests issued so far
    h2_msg,         \* summarize handler: outcome of the run
    pr_pc,          \* probe_report_list_api: "idle" | "fetch_type" | "loop" | "returned" | "raised"
    pr_types,       \* probe_report_list_api: apba_type_candidates
    pr_pos,         \* probe_report_list_api: loop indices (endpoint, payload set, apbaType)
    pr_last_err,    \* probe_report_list_api: last_err
    pr_result,      \* probe_report_list_api: returned ListProbeResult
    pr_exc,         \* probe_report_list_api: exception it raised
    pr_log,         \* probe_report_list_api: requests issued, in order
    dp_pc,          \* probe_detail_api_for_pdf: "idle" | "start" | "get" | "post" | "returned"
    dp_args,        \* probe_detail_api_for_pdf: arguments
    dp_params,      \* probe_detail_api_for_pdf: param_candidates
    dp_pos,         \* probe_detail_api_for_pdf: loop indices (endpoint, params)
    dp_last,        \* probe_detail_api_for_pdf: requests of the latest loop iteration
    dp_result,      \* probe_detail_api_for_pdf: returned value
    sm_pc,          \* summarize_kwater_standard_a: "idle" | "chunks" | "returned" | "raised"
    sm_chunks,      \* summarize_kwater_standard_a: chunk_text(text)
    sm_partial,     \* summarize_kwater_standard_a: partial
    sm_requests,    \* summarize_kwater_standard_a: every LLM request, its user content and output_text
    sm_result,      \* summarize_kwater_standard_a: returned summary
    ck_text,        \* chunk_text: argument text
    ck_max_chars,   \* chunk_text: argument max_chars
    ck_overlap,     \* chunk_text: argument overlap
    ck_start,       \* chunk_text: local start
    ck_chunks,      \* chunk_text: local chunks
    ck_pc,          \* chunk_text: "idle" | "loop" | "done"
    js_data,        \* extract_list_from_json: argument data
    js_items,       \* extract_list_from_json: first component of the result
    js_key,         \* extract_list_from_json: second component of the result
    js_pc           \* extract_list_from_json: "idle" | "call" | "returned"

stVars == <<st_probe, st_candidates, has_key>>
h1Vars == <<h1_pc, h1_msg>>
h2Vars == <<h2_pc, h2_cand, h2_pdf_url, h2_text, h2_net, h2_msg>>
prVars == <<pr_pc, pr_types, pr_pos, pr_last_err, pr_result, pr_exc, pr_log>>
dpVars == <<dp_pc, dp_args, dp_params, dp_pos, dp_last, dp_result>>
smVars == <<sm_pc, sm_chunks, sm_partial, sm_requests, sm_result>>
ckVars == <<ck_text, ck_max_chars, ck_overlap, ck_start, ck_chunks, ck_pc>>
jsVars == <<js_data, js_items, js_key, js_pc>>

vars == <<stVars, h1Vars, h2Vars, prVars, dpVars, smVars, ckVars, jsVars>>

(***************************************************************************)
(* Python built-ins                                                        *)
(***************************************************************************)
NoneStr == "(None)"

Min(a, b) == IF a < b THEN a ELSE b

\* a slice bound as Python normalises it: negative counts from the end,
\* then clamp into 0..n
PyIndex(i, n) ==
    IF i < 0 THEN (IF i + n < 0 THEN 0 ELSE i + n)
    ELSE (IF i > n THEN n ELSE i)

\* s[a:b]
PySlice(s, a, b) ==
    LET lo == PyIndex(a, Len(s))
        hi == PyIndex(b, Len(s))
    IN  IF lo < hi THEN SubSeq(s, lo + 1, hi) ELSE <<>>

Whitespace == {" ", "\n"}

RECURSIVE LStrip(_)
LStrip(s) == IF s # <<>> /\ Head(s) \in Whitespace THEN LStrip(Tail(s)) ELSE s

RECURSIVE RStrip(_)
RStrip(s) ==
    IF s # <<>> /\ s[Len(s)] \in Whitespace THEN RStrip(SubSeq(s, 1, Len(s) - 1)) ELSE s

\* s.strip()
Strip(s) == RStrip(LStrip(s))

RECURSIVE Join(_, _)
\* sep.join(parts)
Join(sep, parts) ==
    IF Len(parts) = 0 THEN <<>>
    ELSE IF Len(parts) = 1 THEN parts[1]
    ELSE parts[1] \o sep \o Join(sep, Tail(parts))

RECURSIVE Dedupe(_)
\* list(dict.fromkeys(xs)): first occurrences, in order
Dedupe(xs) ==
    IF xs = <<>> THEN <<>>
    ELSE LET front == Dedupe(SubSeq(xs, 1, Len(xs) - 1))
             x     == xs[Len(xs)]
         IN  IF \E i \in 1..Len(front) : front[i] = x THEN front ELSE Append(front, x)

\* the least element of a non-empty set of integers
Least(S) == CHOOSE i \in S : \A j \in S : i <= j

(***************************************************************************)
(* JSON values                                                             *)
(*   a list   [t |-> "list",   v |-> its elements]                         *)
(*   a dict   [t |-> "dict",   v |-> its entries [k, val], document order] *)
(*   a scalar [t |-> "scalar", v |-> <<s>>] for the string s,              *)
(*            [t |-> "scalar", v |-> <<>>]  for null, "" and 0             *)
(***************************************************************************)
JList(elems) == [t |-> "list", v |-> elems]
JDict(entries) == [t |-> "dict", v |-> entries]
JStr(s) == [t |-> "scalar", v |-> <<s>>]
JNull == [t |-> "scalar", v |-> <<>>]
\* Python's None, as returned by dict.get for an absent key
PyNone == [t |-> "none", v |-> <<>>]

Entry(k, val) == [k |-> k, val |-> val]

\* k in d
HasKey(d, k) == \E i \in 1..Len(d.v) : d.v[i].k = k

\* d.get(k)
DictGet(d, k) ==
    IF HasKey(d, k)
    THEN d.v[CHOOSE i \in 1..Len(d.v) : d.v[i].k = k].val
    ELSE PyNone

\* bool(x) for a JSON value or None
Truthy(x) == x.t # "none" /\ x.v # <<>>

\* d.get(keys[1]) or d.get(keys[2]) or ... or default
RECURSIVE GetFirstTruthy(_, _, _)
GetFirstTruthy(d, keys, default) ==
    IF keys = <<>> THEN default
    ELSE IF Truthy(DictGet(d, Head(keys))) THEN DictGet(d, Head(keys))
    ELSE GetFirstTruthy(d, Tail(keys), default)

(***************************************************************************)
(* extract_list_from_json, guess_total_key (src/app.py 140-174)            *)
(***************************************************************************)
POSSIBLE_LIST_KEYS == <<"list", "data", "result", "rows", "items">>
POSSIBLE_TOTAL_KEYS == <<"totalCount", "total", "records", "count", "totCnt">>

\* the first key of POSSIBLE_LIST_KEYS under which d holds a list, 0 if none
FirstListKey(d) ==
    LET hits == {i \in 1..Len(POSSIBLE_LIST_KEYS) :
                    DictGet(d, POSSIBLE_LIST_KEYS[i]).t = "list"}
    IN  IF hits = {} THEN 0 ELSE Least(hits)

\* the first entry of data, in document order, that is a dict holding a list
\* under a key of POSSIBLE_LIST_KEYS, 0 if none
FirstNestedEntry(data) ==
    LET hits == {i \in 1..Len(data.v) :
                    data.v[i].val.t = "dict" /\ FirstListKey(data.v[i].val) # 0}
    IN  IF hits = {} THEN 0 ELSE Least(hits)

NestedKeyPath_InnerOnly(k, kk) == kk

\* f"{k}.{kk}"
NestedKeyPath(k, kk) == k \o "." \o kk

\* (None, None)
NoList == [items |-> PyNone, key |-> NoneStr]

extract_list_from_json(data) ==
    IF data.t = "list" THEN [items |-> data, key |-> "(root_list)"]
    ELSE IF data.t # "dict" THEN NoList
    ELSE IF FirstListKey(data) # 0
    THEN LET k == POSSIBLE_LIST_KEYS[FirstListKey(data)]
         IN  [items |-> DictGet(data, k), key |-> k]
    ELSE IF FirstNestedEntry(data) # 0
    THEN LET e  == data.v[FirstNestedEntry(data)]
             kk == POSSIBLE_LIST_KEYS[FirstListKey(e.val)]
         IN  [items |-> DictGet(e.val, kk), key |-> NestedKeyPath(e.k, kk)]
    ELSE NoList

\* the first key of POSSIBLE_TOTAL_KEYS present in d, 0 if none
FirstTotalKey(d) ==
    LET hits == {i \in 1..Len(POSSIBLE_TOTAL_KEYS) : HasKey(d, POSSIBLE_TOTAL_KEYS[i])}
    IN  IF hits = {} THEN 0 ELSE Least(hits)

guess_total_key(data) ==
    IF data.t # "dict" THEN NoneStr
    ELSE IF FirstTotalKey(data) # 0 THEN POSSIBLE_TOTAL_KEYS[FirstTotalKey(data)]
    ELSE LET hits == {i \in 1..Len(data.v) :
                        data.v[i].val.t = "dict" /\ FirstTotalKey(data.v[i].val) # 0}
         IN  IF hits = {} THEN NoneStr
             ELSE LET e == data.v[Least(hits)]
                  IN  e.k \o "." \o POSSIBLE_TOTAL_KEYS[FirstTotalKey(e.val)]

\* not items
NotItems(items) == items.t = "none" \/ items.v = <<>>

(***************************************************************************)
(* extract_list_from_json over bounded JSON inputs                         *)
(***************************************************************************)
\* deepest nesting of dicts around a leaf
MaxDepth == 3

ListKeySet == {POSSIBLE_LIST_KEYS[i] : i \in 1..Len(POSSIBLE_LIST_KEYS)}
\* keys a document may use: every recognised alias and one unrecognised key
JsonKeys == ListKeySet \cup {"meta"}

JsonLeaves == {JList(<<>>), JList(<<JStr("e")>>), JStr("s")}

RECURSIVE NarrowJson(_)
\* leaves wrapped in at most d single-entry dicts
NarrowJson(d) ==
    IF d = 0 THEN JsonLeaves
    ELSE LET inner == NarrowJson(d - 1)
         IN  inner \cup {JDict(<<>>)}
                   \cup {JDict(<<Entry(k, x)>>) : k \in JsonKeys, x \in inner}

\* dicts of two entries whose values are leaves or single-entry dicts
WideJson ==
    {JDict(<<Entry(ks[1], x1), Entry(ks[2], x2)>>) :
        ks \in {p \in JsonKeys \X JsonKeys : p[1] # p[2]},
        x1 \in NarrowJson(1), x2 \in NarrowJson(1)}

JsonInputs == NarrowJson(MaxDepth) \cup WideJson

notJs == <<stVars, h1Vars, h2Vars, prVars, dpVars, smVars, ckVars>>

JsonIdle ==
    /\ js_data = PyNone
    /\ js_items = PyNone
    /\ js_key = NoneStr
    /\ js_pc = "idle"

JsonInit ==
    /\ js_data \in JsonInputs
    /\ js_items = PyNone
    /\ js_key = NoneStr
    /\ js_pc = "call"

ExtractList ==
    /\ js_pc = "call"
    /\ LET r == extract_list_from_json(js_data)
       IN  /\ js_items' = r.items
           /\ js_key' = r.key
    /\ js_pc' = "returned"
    /\ UNCHANGED js_data
    /\ UNCHANGED notJs

(***************************************************************************)
(* chunk_text (src/app.py 412-420)                                         *)
(***************************************************************************)
\* longest text handed to chunk_text
MaxLen == 5
\* largest max_chars tried
MaxChars == 3
\* largest overlap tried (beyond MaxChars, so that overlap > max_chars happens)
MaxOverlap == 4
\* loop iterations explored beyond the text's length (a terminating run
\* needs at most one iteration per character)
MaxIter == 2

Chars == {"a", "b"}

Texts == UNION {[1..k -> Chars] : k \in 0..MaxLen}

\* end = min(start + max_chars, n)
WindowEnd(start, max_chars, n) == Min(start + max_chars, n)

Window_DropsFirst(text, start, end) == PySlice(text, start + 1, end)

\* text[start:end]
Window(text, start, end) == PySlice(text, start, end)

NextStart_OneShort(end, n, overlap) == IF end < n THEN end - overlap - 1 ELSE end

NextStart_SkipsOne(end, n, overlap) == IF end < n THEN end - overlap + 1 ELSE end

\* start = end - overlap if end < n else end
NextStart(end, n, overlap) == IF end < n THEN end - overlap ELSE end

\* while start < n
ChunkLoopCond(start, n) == start < n

\* one iteration of the while loop
ChunkBody(text, max_chars, overlap, start, chunks) ==
    LET n   == Len(text)
        end == WindowEnd(start, max_chars, n)
    IN  [chunks |-> Append(chunks, Window(text, start, end)),
         start  |-> NextStart(end, n, overlap)]

RECURSIVE ChunkLoop(_, _, _, _, _)
ChunkLoop(text, max_chars, overlap, start, chunks) ==
    IF ChunkLoopCond(start, Len(text))
    THEN LET r == ChunkBody(text, max_chars, overlap, start, chunks)
         IN  ChunkLoop(text, max_chars, overlap, r.start, r.chunks)
    ELSE chunks

\* the value chunk_text returns; defined when its loop terminates
chunk_text(text, max_chars, overlap) == ChunkLoop(text, max_chars, overlap, 0, <<>>)

notCk == <<stVars, h1Vars, h2Vars, prVars, dpVars, smVars, jsVars>>

ChunkIdle ==
    /\ ck_text = <<>>
    /\ ck_max_chars = 1
    /\ ck_overlap = 0
    /\ ck_start = 0
    /\ ck_chunks = <<>>
    /\ ck_pc = "idle"

ChunkInit ==
    /\ ck_text \in Texts
    /\ ck_max_chars \in 1..MaxChars
    /\ ck_overlap \in 0..MaxOverlap
    /\ ck_start = 0
    /\ ck_chunks = <<>>
    /\ ck_pc = "loop"

ChunkIterate ==
    /\ ck_pc = "loop"
    /\ ChunkLoopCond(ck_start, Len(ck_text))
    /\ Len(ck_chunks) < Len(ck_text) + MaxIter
    /\ LET r == ChunkBody(ck_text, ck_max_chars, ck_overlap, ck_start, ck_chunks)
       IN  /\ ck_chunks' = r.chunks
           /\ ck_start' = r.start
    /\ UNCHANGED <<ck_text, ck_max_chars, ck_overlap, ck_pc>>
    /\ UNCHANGED notCk

ChunkReturn ==
    /\ ck_pc = "loop"
    /\ ~ChunkLoopCond(ck_start, Len(ck_text))
    /\ ck_pc' = "done"
    /\ UNCHANGED <<ck_text, ck_max_chars, ck_overlap, ck_start, ck_chunks>>
    /\ UNCHANGED notCk

(***************************************************************************)
(* HTTP (src/app.py 86-104)                                                *)
(*   a response [err, ct_json, body]: err is the exception safe_get /      *)
(*   safe_post raises (NoneStr when the request succeeds), ct_json says    *)
(*   whether Content-Type names application/json, body is the decoded JSON *)
(*   value, Garbage when the body is not JSON, or an HTML page.            *)
(***************************************************************************)
BASE == "https://www.alio.go.kr"

\* raise_for_status (HTTPError), timeout, connection failure
TransportErrors == {"HTTPError", "Timeout", "ConnectionError"}

Garbage == [t |-> "garbage", v |-> <<>>]

Failed(e) == [err |-> e, ct_json |-> FALSE, body |-> Garbage]
Ok(ct, body) == [err |-> NoneStr, ct_json |-> ct, body |-> body]

\* resp.json() raises
JsonRaises(resp) == resp.body.t \notin {"list", "dict", "scalar"}

is_json_response(resp) == resp.ct_json \/ ~JsonRaises(resp)

\* an exception value
Exc(type, msg) == [type |-> type, msg |-> msg]
NoExc == Exc(NoneStr, NoneStr)

(***************************************************************************)
(* fetch_apba_type (src/app.py 109-124)                                    *)
(*   an HTML page is modelled by what each of the three patterns, in       *)
(*   order, captures in it (NoneStr: no match).                            *)
(***************************************************************************)
HtmlTypePage(m1, m2, m3) == [t |-> "html", v |-> <<m1, m2, m3>>]

ExtractedTypes == {NoneStr, "C"}

TypePageResponses ==
    {Failed(e) : e \in TransportErrors}
    \cup {Ok(FALSE, HtmlTypePage(m1, m2, m3)) :
            m1 \in ExtractedTypes, m2 \in ExtractedTypes, m3 \in ExtractedTypes}

\* for p in patterns: m = re.search(p, html); if m: return m.group(1)
ApbaTypeFromHtml(html) ==
    LET hits == {i \in 1..Len(html.v) : html.v[i] # NoneStr}
    IN  IF hits = {} THEN NoneStr ELSE html.v[Least(hits)]

\* [exc, value]: the exception fetch_apba_type raises, or the value it returns
fetch_apba_type(resp) ==
    IF resp.err # NoneStr THEN [exc |-> Exc(resp.err, resp.err), value |-> NoneStr]
    ELSE [exc |-> NoExc, value |-> ApbaTypeFromHtml(resp.body)]

(***************************************************************************)
(* probe_report_list_api (src/app.py 129-138, 176-219)                     *)
(***************************************************************************)
LIST_ENDPOINT_CANDIDATES ==
    << [url |-> BASE \o "/item/itemReportListSusi.json", method |-> "POST"],
       [url |-> BASE \o "/item/itemReportList.json", method |-> "POST"] >>

\* the page key and the size key of each payload shape
PAYLOAD_SETS ==
    << [page |-> "pageNo", size |-> "pageCnt"],
       [page |-> "pageIndex", size |-> "pageSize"],
       [page |-> "curPage", size |-> "pageSize"] >>

FALLBACK_APBA_TYPES == <<"1", "2", "A", "B">>

APBA_TYPE_PAGE == BASE \o "/item/itemOrganList.do"

\* the sidebar's default inputs
APBA_ID == "C0221"
REPORT_ROOT == "B1040"
PAGE_SIZE == 30

\* apba_type_candidates = [apba_type] if apba_type else []; += ["1", "2", "A", "B"]
ApbaTypeCandidates(apba_type) ==
    (IF apba_type # NoneStr THEN <<apba_type>> ELSE <<>>) \o FALLBACK_APBA_TYPES

\* payload = dict(base_payload) with the identifiers and the page size filled in
ProbePayload(p, apba_type_try) ==
    [apbaId |-> APBA_ID, reportFormRootNo |-> REPORT_ROOT, apbaType |-> apba_type_try,
     pageKey |-> PAYLOAD_SETS[p].page, page |-> 1,
     sizeKey |-> PAYLOAD_SETS[p].size, size |-> PAGE_SIZE]

NoProbe ==
    [endpoint |-> NoneStr, method |-> NoneStr, payload |-> ProbePayload(1, NoneStr),
     list_key |-> NoneStr, total_key |-> NoneStr, apba_type |-> NoneStr]

ListProbeResult(pos, types, data) ==
    [endpoint  |-> LIST_ENDPOINT_CANDIDATES[pos.e].url,
     method    |-> LIST_ENDPOINT_CANDIDATES[pos.e].method,
     payload   |-> ProbePayload(pos.p, types[pos.t]),
     list_key  |-> extract_list_from_json(data).key,
     total_key |-> guess_total_key(data),
     apba_type |-> types[pos.t]]

FirstPos == [e |-> 1, p |-> 1, t |-> 1]

\* the three nested for loops: apbaType innermost, endpoint outermost
LastPos(pos, types) ==
    /\ pos.e = Len(LIST_ENDPOINT_CANDIDATES)
    /\ pos.p = Len(PAYLOAD_SETS)
    /\ pos.t = Len(types)

NextPos(pos, types) ==
    IF pos.t < Len(types) THEN [pos EXCEPT !.t = pos.t + 1]
    ELSE IF pos.p < Len(PAYLOAD_SETS) THEN [pos EXCEPT !.p = pos.p + 1, !.t = 1]
    ELSE [e |-> pos.e + 1, p |-> 1, t |-> 1]

ProbeSkips_OnlyNone(items) == items.t = "none"

\* if not items: continue
ProbeSkips(items) == NotItems(items)

\* the body of the try statement for one candidate:
\* "except" (with the exception), "continue" or "return"
ProbeTry(resp) ==
    IF resp.err # NoneStr THEN [k |-> "except", err |-> resp.err]
    ELSE IF ~is_json_response(resp) THEN [k |-> "continue", err |-> NoneStr]
    ELSE IF JsonRaises(resp) THEN [k |-> "except", err |-> "JSONDecodeError"]
    ELSE IF ProbeSkips(extract_list_from_json(resp.body).items)
    THEN [k |-> "continue", err |-> NoneStr]
    ELSE [k |-> "return", err |-> NoneStr]

\* responses a list endpoint may give
ListBodies ==
    { Garbage,
      JStr("ok"),
      JList(<<JStr("e")>>),
      JDict(<<Entry("list", JList(<<>>))>>),
      JDict(<<Entry("list", JList(<<JStr("e")>>)), Entry("totalCount", JStr("1"))>>),
      JDict(<<Entry("result", JDict(<<Entry("rows", JList(<<JStr("e")>>)),
                                      Entry("total", JStr("1"))>>))>>),
      JDict(<<Entry("meta", JStr("m"))>>) }

ListResponses ==
    {Failed(e) : e \in TransportErrors}
    \cup {Ok(ct, b) : ct \in BOOLEAN, b \in ListBodies}

\* the response is JSON and holds a non-empty list of entries
YieldsEntries(resp) ==
    /\ resp.err = NoneStr
    /\ resp.body.t \in {"list", "dict"}
    /\ extract_list_from_json(resp.body).items.t = "list"
    /\ Len(extract_list_from_json(resp.body).items.v) > 0

LogEntry(url, p, apba_type, matched) ==
    [endpoint |-> url, payloadSet |-> p, apbaType |-> apba_type, matched |-> matched]

notPr == <<stVars, h1Vars, h2Vars, dpVars, smVars, ckVars, jsVars>>

ProbeIdle ==
    /\ pr_pc = "idle"
    /\ pr_types = <<>>
    /\ pr_pos = FirstPos
    /\ pr_last_err = NoneStr
    /\ pr_result = NoProbe
    /\ pr_exc = NoExc
    /\ pr_log = <<>>

\* the state in which probe_report_list_api is entered
ProbeCalled ==
    /\ pr_pc = "fetch_type"
    /\ pr_types = <<>>
    /\ pr_pos = FirstPos
    /\ pr_last_err = NoneStr
    /\ pr_result = NoProbe
    /\ pr_exc = NoExc
    /\ pr_log = <<>>

\* line 177-181: the apbaType page is fetched outside any try statement
ProbeFetchType ==
    /\ pr_pc = "fetch_type"
    /\ \E resp \in TypePageResponses :
         LET r == fetch_apba_type(resp)
         IN  /\ pr_log' = <<LogEntry(APBA_TYPE_PAGE, 0, NoneStr, FALSE)>>
             /\ IF r.exc # NoExc
                THEN /\ pr_pc' = "raised"
                     /\ pr_exc' = r.exc
                     /\ UNCHANGED pr_types
                ELSE /\ pr_pc' = "loop"
                     /\ pr_types' = ApbaTypeCandidates(r.value)
                     /\ UNCHANGED pr_exc
    /\ UNCHANGED <<pr_pos, pr_last_err, pr_result>>
    /\ UNCHANGED notPr

\* line 183-219: one candidate; after the last one the function raises
ProbeCandidate ==
    /\ pr_pc = "loop"
    /\ \E resp \in ListResponses :
         LET o == ProbeTry(resp)
         IN  /\ pr_log' = Append(pr_log,
                    LogEntry(LIST_ENDPOINT_CANDIDATES[pr_pos.e].url, pr_pos.p,
                             pr_types[pr_pos.t], YieldsEntries(resp)))
             /\ pr_last_err' = IF o.k = "except" THEN o.err ELSE pr_last_err
             /\ IF o.k = "return"
                THEN /\ pr_result' = ListProbeResult(pr_pos, pr_types, resp.body)
                     /\ pr_pc' = "returned"
                     /\ UNCHANGED <<pr_pos, pr_exc>>
                ELSE IF LastPos(pr_pos, pr_types)
                THEN /\ pr_pc' = "raised"
                     /\ pr_exc' = Exc("RuntimeError", "probe_exhausted")
                     /\ UNCHANGED <<pr_pos, pr_result>>
                ELSE /\ pr_pos' = NextPos(pr_pos, pr_types)
                     /\ UNCHANGED <<pr_pc, pr_result, pr_exc>>
    /\ UNCHANGED pr_types
    /\ UNCHANGED notPr

(***************************************************************************)
(* Strings of URLs and file names.  The code inspects them with lower(),   *)
(* `in`, startswith and endswith; each test is the set of the model's      *)
(* strings that pass it.                                                   *)
(***************************************************************************)
UrlStrings ==
    {"/files/a.pdf", "/download/1?fileNo=2", "/view/2",
     "http://cdn.example/B.PDF", "http://cdn.example/get?id=1"}

\* ".pdf" in s.lower()
ContainsPdf(s) ==
    s \in {"/files/a.pdf", BASE \o "/files/a.pdf", "http://cdn.example/B.PDF", "a.pdf"}
\* s.lower().endswith(".pdf")
EndsWithPdf(s) ==
    s \in {"/files/a.pdf", BASE \o "/files/a.pdf", "http://cdn.example/B.PDF", "a.pdf"}
\* "filedown" in s.lower() or "download" in s.lower()
ContainsDownload(s) == s \in {"/download/1?fileNo=2", BASE \o "/download/1?fileNo=2"}
\* s.lower() == "pdf"
IsPdfExt(s) == s \in {"pdf", "PDF"}
\* s.startswith("/")
StartsWithSlash(s) == s \in {"/files/a.pdf", "/download/1?fileNo=2", "/view/2"}

\* urljoin(BASE, url) if url.startswith("/") else url
AbsUrl(url) == IF StartsWithSlash(url) THEN BASE \o url ELSE url

\* the string a JSON scalar holds, "" for null and for a missing value
StrOf(x) == IF x.t = "scalar" /\ x.v # <<>> THEN x.v[1] ELSE ""

(***************************************************************************)
(* guess_id_fields, extract_pdf_from_detail_json (src/app.py 278-316)      *)
(***************************************************************************)
DETAIL_ENDPOINT_CANDIDATES ==
    << BASE \o "/item/itemReportDetail.json",
       BASE \o "/item/itemReportView.json",
       BASE \o "/iris/api/report/detail.json",
       BASE \o "/iris/api/report/detail" >>

DETAIL_ID_KEYS ==
    <<"reportNo", "reportSn", "rptNo", "id", "seq", "reportId", "reportFormNo", "reportRootNo">>

\* the keys tried as a request parameter, in order (line 324)
PARAM_ID_KEYS == <<"reportNo", "reportSn", "rptNo", "reportId", "id", "seq">>

\* item[k] not in (None, "", 0)
NotBlank(x) == ~(x.t = "scalar" /\ x.v = <<>>)

\* the keys of guess_id_fields(item)
IdFieldKeys(item) ==
    {DETAIL_ID_KEYS[i] : i \in {j \in 1..Len(DETAIL_ID_KEYS) :
        HasKey(item, DETAIL_ID_KEYS[j]) /\ NotBlank(DictGet(item, DETAIL_ID_KEYS[j]))}}

RECURSIVE SelectSeq2(_, _)
\* the elements of keys that are in S, in order
SelectSeq2(keys, S) ==
    IF keys = <<>> THEN <<>>
    ELSE (IF Head(keys) \in S THEN <<Head(keys)>> ELSE <<>>) \o SelectSeq2(Tail(keys), S)

\* if s: (a str or None)
Given(s) == s \notin {"", NoneStr}

NoExtras == [apbaId |-> NoneStr, reportFormRootNo |-> NoneStr, apbaType |-> NoneStr]

Extras(apba_id, report_root, apba_type) ==
    [apbaId           |-> IF Given(apba_id) THEN apba_id ELSE NoneStr,
     reportFormRootNo |-> IF Given(report_root) THEN report_root ELSE NoneStr,
     apbaType         |-> IF Given(apba_type) THEN apba_type ELSE NoneStr]

\* param_candidates: one {k: id} per key present, then each of them merged
\* with the extras when there are any
ParamCandidates(item, apba_id, report_root, apba_type) ==
    LET keys   == SelectSeq2(PARAM_ID_KEYS, IdFieldKeys(item))
        plain  == [i \in 1..Len(keys) |->
                     [key |-> keys[i], val |-> DictGet(item, keys[i]), extras |-> NoExtras]]
        extras == Extras(apba_id, report_root, apba_type)
        merged == [i \in 1..Len(keys) |-> [plain[i] EXCEPT !.extras = extras]]
    IN  IF extras # NoExtras THEN plain \o merged ELSE plain

ATTACH_KEYS == <<"attachFiles", "files", "fileList", "attachments">>
PDF_URL_KEYS == <<"pdfUrl", "pdfURL", "downloadUrl", "downUrl", "url">>

\* the PDF URL one file entry gives, NoneStr if none
FilePdf(f) ==
    IF f.t # "dict" THEN NoneStr
    ELSE LET ext  == StrOf(GetFirstTruthy(f, <<"fileExt", "ext">>, JNull))
             name == StrOf(GetFirstTruthy(f, <<"fileNm", "name", "fileName">>, JNull))
             url  == StrOf(GetFirstTruthy(f, <<"downloadUrl", "downUrl", "url">>, JNull))
         IN  IF url # "" /\ (IsPdfExt(ext) \/ EndsWithPdf(name) \/ ContainsPdf(url))
             THEN AbsUrl(url) ELSE NoneStr

RECURSIVE FirstFilePdf(_)
FirstFilePdf(files) ==
    IF files = <<>> THEN NoneStr
    ELSE IF FilePdf(Head(files)) # NoneStr THEN FilePdf(Head(files))
    ELSE FirstFilePdf(Tail(files))

RECURSIVE AttachPdf(_, _)
\* first loop: the attachment lists, in key order
AttachPdf(d, keys) ==
    IF keys = <<>> THEN NoneStr
    ELSE LET v == DictGet(d, Head(keys))
         IN  IF v.t = "list" /\ FirstFilePdf(v.v) # NoneStr THEN FirstFilePdf(v.v)
             ELSE AttachPdf(d, Tail(keys))

RECURSIVE DirectPdf(_, _)
\* second loop: the top-level URL fields, in key order
DirectPdf(d, keys) ==
    IF keys = <<>> THEN NoneStr
    ELSE LET v == DictGet(d, Head(keys))
         IN  IF v.t = "scalar" /\ StrOf(v) # ""
                /\ (ContainsPdf(StrOf(v)) \/ ContainsDownload(StrOf(v)))
             THEN AbsUrl(StrOf(v))
             ELSE DirectPdf(d, Tail(keys))

extract_pdf_from_detail_json(detail_json) ==
    IF detail_json.t # "dict" THEN NoneStr
    ELSE IF AttachPdf(detail_json, ATTACH_KEYS) # NoneStr
    THEN AttachPdf(detail_json, ATTACH_KEYS)
    ELSE DirectPdf(detail_json, PDF_URL_KEYS)

(***************************************************************************)
(* probe_detail_api_for_pdf (src/app.py 318-358)                           *)
(***************************************************************************)
DetailBodies ==
    { Garbage,
      JList(<<>>),
      JDict(<<Entry("meta", JStr("m"))>>),
      JDict(<<Entry("attachFiles", JList(<<
                JDict(<<Entry("fileExt", JStr("hwp")), Entry("fileNm", JStr("b.hwp")),
                        Entry("downloadUrl", JStr("/download/1?fileNo=2"))>>)>>))>>),
      JDict(<<Entry("attachFiles", JList(<<
                JDict(<<Entry("fileExt", JStr("PDF")),
                        Entry("downloadUrl", JStr("/download/1?fileNo=2"))>>)>>))>>),
      JDict(<<Entry("files", JList(<<
                JStr("x"),
                JDict(<<Entry("name", JStr("a.pdf")),
                        Entry("url", JStr("http://cdn.example/get?id=1"))>>)>>))>>),
      JDict(<<Entry("pdfUrl", JStr("/files/a.pdf"))>>),
      JDict(<<Entry("url", JStr("/view/2"))>>) }

DetailResponses ==
    {Failed(e) : e \in TransportErrors}
    \cup {Ok(ct, b) : ct \in BOOLEAN, b \in DetailBodies}

\* a request of the log: its method, whether it raised in the try block
\* (the transport, or resp.json()), and the PDF URL its response gave
Req(method, raised, pdf) == [method |-> method, raised |-> raised, pdf |-> pdf]

\* what one request of the try block does with its response
AfterResponse(method, resp) ==
    IF resp.err # NoneStr THEN Req(method, TRUE, NoneStr)
    ELSE IF ~is_json_response(resp) THEN Req(method, FALSE, NoneStr)
    ELSE IF JsonRaises(resp) THEN Req(method, TRUE, NoneStr)
    ELSE Req(method, FALSE, extract_pdf_from_detail_json(resp.body))

\* after the GET: its exception ends the iteration (except: continue), its
\* PDF URL is returned, otherwise the POST follows
AfterGet(g) ==
    IF g.raised THEN "continue"
    ELSE IF g.pdf # NoneStr THEN "return"
    ELSE "post"

\* after the POST: its PDF URL is returned, otherwise the iteration ends
AfterPost(p) ==
    IF ~p.raised /\ p.pdf # NoneStr THEN "return" ELSE "continue"

DetailArgs(item, apba_id, report_root, apba_type) ==
    [item |-> item, apba_id |-> apba_id, report_root |-> report_root, apba_type |-> apba_type]

NoArgs == DetailArgs(PyNone, NoneStr, NoneStr, NoneStr)

notDp == <<stVars, h1Vars, h2Vars, prVars, smVars, ckVars, jsVars>>

DetailIdle ==
    /\ dp_pc = "idle"
    /\ dp_args = NoArgs
    /\ dp_params = <<>>
    /\ dp_pos = [e |-> 1, i |-> 1]
    /\ dp_last = <<>>
    /\ dp_result = NoneStr

\* the state in which probe_detail_api_for_pdf is entered with args
DetailCalled(args) ==
    /\ dp_pc = "start"
    /\ dp_args = args
    /\ dp_params = <<>>
    /\ dp_pos = [e |-> 1, i |-> 1]
    /\ dp_last = <<>>
    /\ dp_result = NoneStr

\* the caller enters probe_detail_api_for_pdf with args
CallDetail(args) ==
    /\ dp_pc' = "start"
    /\ dp_args' = args
    /\ dp_params' = <<>>
    /\ dp_pos' = [e |-> 1, i |-> 1]
    /\ dp_last' = <<>>
    /\ dp_result' = NoneStr

\* the caller has taken the returned value; the locals are gone
LeaveDetail ==
    /\ dp_pc' = "idle"
    /\ dp_args' = NoArgs
    /\ dp_params' = <<>>
    /\ dp_pos' = [e |-> 1, i |-> 1]
    /\ dp_last' = <<>>
    /\ dp_result' = NoneStr

\* line 319-340
DetailBegin ==
    /\ dp_pc = "start"
    /\ LET ps == ParamCandidates(dp_args.item, dp_args.apba_id,
                                 dp_args.report_root, dp_args.apba_type)
       IN  /\ dp_params' = ps
           /\ dp_pc' = IF IdFieldKeys(dp_args.item) = {} \/ ps = <<>>
                       THEN "returned" ELSE "get"
    /\ UNCHANGED <<dp_args, dp_pos, dp_last, dp_result>>
    /\ UNCHANGED notDp

\* the for loops step to the next (endpoint, params), or the function
\* returns None after the last one
DetailAdvance ==
    IF dp_pos.i < Len(dp_params)
    THEN /\ dp_pos' = [dp_pos EXCEPT !.i = dp_pos.i + 1]
         /\ dp_pc' = "get"
    ELSE IF dp_pos.e < Len(DETAIL_ENDPOINT_CANDIDATES)
    THEN /\ dp_pos' = [e |-> dp_pos.e + 1, i |-> 1]
         /\ dp_pc' = "get"
    ELSE /\ dp_pc' = "returned"
         /\ UNCHANGED dp_pos

\* line 344-349: the GET of one (endpoint, params) iteration
DetailGet ==
    /\ dp_pc = "get"
    /\ \E r1 \in DetailResponses :
         LET g == AfterResponse("GET", r1)
         IN  /\ dp_last' = <<g>>
             /\ CASE AfterGet(g) = "return" ->
                        /\ dp_result' = g.pdf
                        /\ dp_pc' = "returned"
                        /\ UNCHANGED dp_pos
                  [] AfterGet(g) = "post" ->
                        /\ dp_pc' = "post"
                        /\ UNCHANGED <<dp_result, dp_pos>>
                  [] OTHER ->
                        /\ DetailAdvance
                        /\ UNCHANGED dp_result
    /\ UNCHANGED <<dp_args, dp_params>>
    /\ UNCHANGED notDp

\* line 350-356: the POST of the same iteration
DetailPost ==
    /\ dp_pc = "post"
    /\ \E r2 \in DetailResponses :
         LET p == AfterResponse("POST", r2)
         IN  /\ dp_last' = Append(dp_last, p)
             /\ IF AfterPost(p) = "return"
                THEN /\ dp_result' = p.pdf
                     /\ dp_pc' = "returned"
                     /\ UNCHANGED dp_pos
                ELSE /\ DetailAdvance
                     /\ UNCHANGED dp_result
    /\ UNCHANGED <<dp_args, dp_params>>
    /\ UNCHANGED notDp

(***************************************************************************)
(* summarize_kwater_standard_a (src/app.py 431-454)                        *)
(***************************************************************************)
\* chunk_text's default max_chars (6000) and overlap (400), scaled down to
\* the model's text lengths; overlap < max_chars as in the source
SCALED_MAX_CHARS == 2
SCALED_OVERLAP == 1

\* what client.responses.create gives: an exception of the SDK, or output_text
LLMErrors == {"APIError"}
LLMOutputs == {<<"x">>, <<" ", "y", "\n">>}
LLMResponses ==
    {[err |-> e, output_text |-> <<>>] : e \in LLMErrors}
    \cup {[err |-> NoneStr, output_text |-> o] : o \in LLMOutputs}

\* if len(partial) == 1: return partial[0]
ReturnsPartial_Never(partial) == FALSE

ReturnsPartial(partial) == Len(partial) = 1

\* combined = "\n\n".join(partial)
Combined(partial) == Join(<<"\n", "\n">>, partial)

notSm == <<stVars, h1Vars, h2Vars, prVars, dpVars, ckVars, jsVars>>

SumIdle ==
    /\ sm_pc = "idle"
    /\ sm_chunks = <<>>
    /\ sm_partial = <<>>
    /\ sm_requests = <<>>
    /\ sm_result = <<>>

\* the state in which summarize_kwater_standard_a is entered with text
SumCalled(text) ==
    /\ sm_pc = "chunks"
    /\ sm_chunks = chunk_text(text, SCALED_MAX_CHARS, SCALED_OVERLAP)
    /\ sm_partial = <<>>
    /\ sm_requests = <<>>
    /\ sm_result = <<>>

CallSum(text) ==
    /\ sm_pc' = "chunks"
    /\ sm_chunks' = chunk_text(text, SCALED_MAX_CHARS, SCALED_OVERLAP)
    /\ sm_partial' = <<>>
    /\ sm_requests' = <<>>
    /\ sm_result' = <<>>

LeaveSum ==
    /\ sm_pc' = "idle"
    /\ sm_chunks' = <<>>
    /\ sm_partial' = <<>>
    /\ sm_requests' = <<>>
    /\ sm_result' = <<>>

\* line 433-441: the request for the next chunk
SumChunk ==
    /\ sm_pc = "chunks"
    /\ Len(sm_partial) < Len(sm_chunks)
    /\ \E r \in LLMResponses :
         /\ sm_requests' = Append(sm_requests,
                [input |-> sm_chunks[Len(sm_partial) + 1], output |-> r.output_text])
         /\ IF r.err # NoneStr
            THEN /\ sm_pc' = "raised"
                 /\ UNCHANGED sm_partial
            ELSE /\ sm_partial' = Append(sm_partial, Strip(r.output_text))
                 /\ UNCHANGED sm_pc
    /\ UNCHANGED <<sm_chunks, sm_result>>
    /\ UNCHANGED notSm

\* line 443-444
SumReturnPartial ==
    /\ sm_pc = "chunks"
    /\ Len(sm_partial) = Len(sm_chunks)
    /\ ReturnsPartial(sm_partial)
    /\ sm_result' = sm_partial[1]
    /\ sm_pc' = "returned"
    /\ UNCHANGED <<sm_chunks, sm_partial, sm_requests>>
    /\ UNCHANGED notSm

\* line 446-454: the aggregation request
SumAggregate ==
    /\ sm_pc = "chunks"
    /\ Len(sm_partial) = Len(sm_chunks)
    /\ ~ReturnsPartial(sm_partial)
    /\ \E r \in LLMResponses :
         /\ sm_requests' = Append(sm_requests,
                [input |-> Combined(sm_partial), output |-> r.output_text])
         /\ IF r.err # NoneStr
            THEN /\ sm_pc' = "raised"
                 /\ UNCHANGED sm_result
            ELSE /\ sm_result' = Strip(r.output_text)
                 /\ sm_pc' = "returned"
    /\ UNCHANGED <<sm_chunks, sm_partial>>
    /\ UNCHANGED notSm

(***************************************************************************)
(* fetch_list_with_probe, normalize_candidates (src/app.py 221-273)        *)
(***************************************************************************)
\* longest entry list a list endpoint returns
MaxCands == 1

\* entries of a list: with a report number, with a relative detail URL,
\* with neither, with only an identifier that is no request parameter, and
\* an entry that is no mapping
RawItems ==
    { JDict(<<Entry("reportNo", JStr("R1")), Entry("reportTitle", JStr("T"))>>),
      JDict(<<Entry("detailUrl", JStr("/view/2"))>>),
      JDict(<<Entry("reportTitle", JStr("T"))>>),
      JDict(<<Entry("reportFormNo", JStr("F1"))>>),
      JStr("e") }

ItemLists == UNION {[1..k -> RawItems] : k \in 0..MaxCands}

\* what the chosen list endpoint answers on the page fetch
PageBodies ==
    {Garbage, JDict(<<Entry("meta", JStr("m"))>>)}
    \cup {JList(l) : l \in ItemLists}
    \cup {JDict(<<Entry("list", JList(l)), Entry("totalCount", JStr("1"))>>) : l \in ItemLists}

PageResponses ==
    {Failed(e) : e \in TransportErrors}
    \cup {Ok(ct, b) : ct \in BOOLEAN, b \in PageBodies}

\* [exc, value]: the exception fetch_list_with_probe raises, or the JSON it returns
fetch_list_with_probe(resp) ==
    IF resp.err # NoneStr THEN [exc |-> Exc(resp.err, resp.err), value |-> PyNone]
    ELSE IF ~is_json_response(resp)
    THEN [exc |-> Exc("RuntimeError", "list_not_json"), value |-> PyNone]
    ELSE IF JsonRaises(resp)
    THEN [exc |-> Exc("JSONDecodeError", "JSONDecodeError"), value |-> PyNone]
    ELSE [exc |-> NoExc, value |-> resp.body]

TITLE_KEYS == <<"reportTitle", "rtitle", "title", "sj", "reportSj">>
ORG_KEYS == <<"apbaNm", "orgNm", "instNm", "org", "apbaName">>
DATE_KEYS == <<"regDate", "regDt", "pubDate", "publishDate", "ymd", "wrtDt">>
URL_KEYS == <<"detailUrl", "detailURL", "linkUrl", "url">>
RID_KEYS == <<"reportNo", "reportSn", "rptNo", "id", "seq">>

\* the detail URL of one entry, NoneStr if it has none
DetailUrlOf(it) ==
    LET url == StrOf(GetFirstTruthy(it, URL_KEYS, JNull))
        rid == StrOf(GetFirstTruthy(it, RID_KEYS, JNull))
    IN  IF url # "" THEN AbsUrl(url)
        ELSE IF rid # "" THEN BASE \o "/item/itemDetail.do?reportNo=" \o rid
        ELSE NoneStr

ReportCandidate(it) ==
    [title      |-> StrOf(GetFirstTruthy(it, TITLE_KEYS, JStr("(no title)"))),
     org        |-> StrOf(GetFirstTruthy(it, ORG_KEYS, JStr(""))),
     date       |-> StrOf(GetFirstTruthy(it, DATE_KEYS, JStr(""))),
     detail_url |-> DetailUrlOf(it),
     raw        |-> it]

RECURSIVE CandidatesOf(_)
\* entries that are no mapping are skipped
CandidatesOf(items) ==
    IF items = <<>> THEN <<>>
    ELSE (IF Head(items).t = "dict" THEN <<ReportCandidate(Head(items))>> ELSE <<>>)
            \o CandidatesOf(Tail(items))

normalize_candidates(list_json) ==
    LET items == extract_list_from_json(list_json).items
    IN  IF NotItems(items) THEN <<>> ELSE CandidatesOf(items.v)

(***************************************************************************)
(* extract_pdf_links_from_detail_html, pick_best_pdf_link                  *)
(* (src/app.py 360-388).  A detail page is modelled by what the three      *)
(* scans find in it: the href of every anchor, the absolute URLs, and the  *)
(* /download/ paths.                                                       *)
(***************************************************************************)
HtmlPage(anchors, urls, downloads) ==
    [t |-> "html", anchors |-> anchors, urls |-> urls, downloads |-> downloads]

DetailPages ==
    { HtmlPage(<<"/view/2">>, <<"http://cdn.example/get?id=1">>, <<>>),
      HtmlPage(<<"/download/1?fileNo=2", "/files/a.pdf">>, <<>>, <<"/download/1?fileNo=2">>),
      HtmlPage(<<>>, <<"http://cdn.example/B.PDF">>, <<>>),
      HtmlPage(<<"/view/2">>, <<>>, <<"/download/1?fileNo=2">>) }

DetailPageResponses ==
    {[err |-> e, page |-> HtmlPage(<<>>, <<>>, <<>>)] : e \in TransportErrors}
    \cup {[err |-> NoneStr, page |-> p] : p \in DetailPages}

RECURSIVE LinkLike(_)
\* the strings of xs that name a PDF or a download, made absolute
LinkLike(xs) ==
    IF xs = <<>> THEN <<>>
    ELSE (IF ContainsPdf(Head(xs)) \/ ContainsDownload(Head(xs))
          THEN <<AbsUrl(Head(xs))>> ELSE <<>>) \o LinkLike(Tail(xs))

\* the links of a fetched page
PageLinks(page) ==
    Dedupe(LinkLike(page.anchors) \o LinkLike(page.urls) \o LinkLike(page.downloads))

pick_best_pdf_link(links) ==
    IF links = <<>> THEN NoneStr
    ELSE LET hits == {i \in 1..Len(links) : ContainsPdf(links[i])}
         IN  IF hits # {} THEN links[Least(hits)] ELSE links[1]

(***************************************************************************)
(* download_pdf_bytes, extract_text_from_pdf (src/app.py 393-410)          *)
(*   a PDF is modelled by what each library makes of it: the page texts,   *)
(*   or an exception.                                                      *)
(***************************************************************************)
Parsed(pages) == [raises |-> FALSE, pages |-> pages]
Unreadable == [raises |-> TRUE, pages |-> <<>>]

PdfDocs ==
    { [plumber |-> Parsed(<<<<"a">>>>),                  pypdf |-> Unreadable],
      [plumber |-> Parsed(<<<<"a", "b">>, <<"a">>>>),    pypdf |-> Parsed(<<>>)],
      [plumber |-> Parsed(<<<<>>, <<" ">>>>),            pypdf |-> Parsed(<<<<"b", "a", " ">>>>)],
      [plumber |-> Unreadable,                           pypdf |-> Parsed(<<<<>>>>)],
      [plumber |-> Unreadable,                           pypdf |-> Unreadable] }

DownloadResponses ==
    {[err |-> e, pdf |-> [plumber |-> Unreadable, pypdf |-> Unreadable]] : e \in TransportErrors}
    \cup {[err |-> NoneStr, pdf |-> d] : d \in PdfDocs}

\* "\n".join(pages).strip()
PagesText(pages) == Strip(Join(<<"\n">>, pages))

\* [exc, value]
extract_text_from_pdf(pdf) ==
    IF ~pdf.plumber.raises /\ PagesText(pdf.plumber.pages) # <<>>
    THEN [exc |-> NoExc, value |-> PagesText(pdf.plumber.pages)]
    ELSE IF pdf.pypdf.raises
    THEN [exc |-> Exc("PdfReadError", "PdfReadError"), value |-> <<>>]
    ELSE [exc |-> NoExc, value |-> PagesText(pdf.pypdf.pages)]

\* get_openai_client (src/app.py 425-429): the exception it raises, if any
get_openai_client(key_present) ==
    IF key_present THEN NoExc ELSE Exc("RuntimeError", "no_api_key")

(***************************************************************************)
(* The page (src/app.py 459-651).  A click runs its handler to the end;    *)
(* the handler's outcome is on the page ("done") until the next rerun.     *)
(***************************************************************************)
\* what a handler run shows: status "ok", "error" (st.error with the
\* exception's message) or "escaped" (the exception left the handler);
\* `at` is the step the run ended in
Outcome(status, msg, at) == [status |-> status, msg |-> msg, at |-> at]
NoOutcome == Outcome(NoneStr, NoneStr, NoneStr)

HandlerCatches_RuntimeErrorOnly(exc) == exc.type = "RuntimeError"

\* except Exception as e
HandlerCatches(exc) == TRUE

Failure(exc, at) ==
    IF HandlerCatches(exc) THEN Outcome("error", exc.msg, at)
    ELSE Outcome("escaped", exc.msg, at)

NoCand == [title |-> "", org |-> "", date |-> "", detail_url |-> NoneStr, raw |-> PyNone]

\* a network request of the summarize handler: what it fetched, and whether
\* it came back without an exception
Net(kind, ok) == [kind |-> kind, ok |-> ok]

\* what probe_report_list_api can return, and what it can raise
ProbeReturns ==
    {ListProbeResult([e |-> e, p |-> p, t |-> t], ApbaTypeCandidates(x), b) :
        e \in 1..Len(LIST_ENDPOINT_CANDIDATES), p \in 1..Len(PAYLOAD_SETS),
        t \in 1..Len(FALLBACK_APBA_TYPES), x \in {NoneStr},
        b \in {b \in ListBodies : YieldsEntries(Ok(TRUE, b))}}
    \cup
    {ListProbeResult([e |-> e, p |-> p, t |-> t], ApbaTypeCandidates(x), b) :
        e \in 1..Len(LIST_ENDPOINT_CANDIDATES), p \in 1..Len(PAYLOAD_SETS),
        t \in 1..(Len(FALLBACK_APBA_TYPES) + 1), x \in ExtractedTypes \ {NoneStr},
        b \in {b \in ListBodies : YieldsEntries(Ok(TRUE, b))}}

ProbeRaises ==
    {Exc(e, e) : e \in TransportErrors} \cup {Exc("RuntimeError", "probe_exhausted")}

notSt2 == <<prVars, ckVars, jsVars>>

SessionInit ==
    /\ st_probe = NoProbe
    /\ st_candidates = <<>>
    /\ has_key \in BOOLEAN
    /\ h1_pc = "idle"
    /\ h1_msg = NoOutcome
    /\ h2_pc = "idle"
    /\ h2_cand = NoCand
    /\ h2_pdf_url = NoneStr
    /\ h2_text = <<>>
    /\ h2_net = <<>>
    /\ h2_msg = NoOutcome

SessionIdle ==
    /\ st_probe = NoProbe
    /\ st_candidates = <<>>
    /\ has_key = FALSE
    /\ h1_pc = "off"
    /\ h1_msg = NoOutcome
    /\ h2_pc = "off"
    /\ h2_cand = NoCand
    /\ h2_pdf_url = NoneStr
    /\ h2_text = <<>>
    /\ h2_net = <<>>
    /\ h2_msg = NoOutcome

(***************************************************************************)
(* Step 1: the list handler (src/app.py 490-540)                           *)
(***************************************************************************)
Step1End(outcome) ==
    /\ h1_pc' = "done"
    /\ h1_msg' = outcome

\* line 490-499: the click, and Step A
Step1Click ==
    /\ h1_pc = "idle" /\ h2_pc = "idle"
    /\ \E resp \in TypePageResponses :
         LET r == fetch_apba_type(resp)
         IN  IF r.exc # NoExc
             THEN Step1End(Failure(r.exc, "A"))
             ELSE /\ h1_pc' = "probe"
                  /\ UNCHANGED h1_msg
    /\ UNCHANGED <<stVars, h2Vars, dpVars, smVars>>
    /\ UNCHANGED notSt2

Step1Probe_KeepsOldProbe ==
    /\ h1_pc = "probe"
    /\ \/ \E exc \in ProbeRaises :
            /\ Step1End(Failure(exc, "B"))
            /\ UNCHANGED st_probe
       \/ \E probe \in ProbeReturns :
            /\ UNCHANGED st_probe
            /\ h1_pc' = "fetch_list"
            /\ UNCHANGED h1_msg
    /\ UNCHANGED <<st_candidates, has_key, h2Vars, dpVars, smVars>>
    /\ UNCHANGED notSt2

\* line 502-515: Step B
Step1Probe ==
    /\ h1_pc = "probe"
    /\ \/ \E exc \in ProbeRaises :
            /\ Step1End(Failure(exc, "B"))
            /\ UNCHANGED st_probe
       \/ \E probe \in ProbeReturns :
            /\ st_probe' = probe
            /\ h1_pc' = "fetch_list"
            /\ UNCHANGED h1_msg
    /\ UNCHANGED <<st_candidates, has_key, h2Vars, dpVars, smVars>>
    /\ UNCHANGED notSt2

\* line 517-535: Steps C and D
Step1FetchList ==
    /\ h1_pc = "fetch_list"
    /\ \E resp \in PageResponses :
         LET r == fetch_list_with_probe(resp)
         IN  IF r.exc # NoExc
             THEN /\ Step1End(Failure(r.exc, "C"))
                  /\ UNCHANGED st_candidates
             ELSE /\ st_candidates' = normalize_candidates(r.value)
                  /\ Step1End(Outcome("ok", "list_fetched", "D"))
    /\ UNCHANGED <<st_probe, has_key, h2Vars, dpVars, smVars>>
    /\ UNCHANGED notSt2

\* the script reruns: the page is drawn again, the run's locals are gone
Step1Rerun ==
    /\ h1_pc = "done"
    /\ h1_pc' = "idle"
    /\ h1_msg' = NoOutcome
    /\ UNCHANGED <<stVars, h2Vars, dpVars, smVars>>
    /\ UNCHANGED notSt2

(***************************************************************************)
(* Step 2: the summarize handler (src/app.py 563-651)                      *)
(***************************************************************************)
Step2End(outcome) ==
    /\ h2_pc' = "done"
    /\ h2_msg' = outcome

\* line 563-596: the button exists once there are candidates; the click
\* checks the probe and starts the JSON phase
Step2Click ==
    /\ h1_pc = "idle" /\ h2_pc = "idle"
    /\ st_candidates # <<>>
    /\ \E idx \in 1..Len(st_candidates) :
         /\ h2_cand' = st_candidates[idx]
         /\ IF st_probe = NoProbe
            THEN /\ Step2End(Failure(Exc("RuntimeError", "run_list_first"), "guard"))
                 /\ UNCHANGED dpVars
            ELSE /\ CallDetail(DetailArgs(st_candidates[idx].raw, APBA_ID, REPORT_ROOT,
                                          st_probe.apba_type))
                 /\ h2_pc' = "detail_probe"
                 /\ UNCHANGED h2_msg
    /\ UNCHANGED <<h2_pdf_url, h2_text, h2_net>>
    /\ UNCHANGED <<stVars, h1Vars, smVars>>
    /\ UNCHANGED notSt2

\* line 598-606: the JSON phase is over
Step2AfterDetail ==
    /\ h2_pc = "detail_probe"
    /\ dp_pc = "returned"
    /\ h2_pdf_url' = dp_result
    /\ h2_net' = IF dp_last # <<>> THEN Append(h2_net, Net("detail_api", TRUE)) ELSE h2_net
    /\ LeaveDetail
    /\ IF dp_result # NoneStr
       THEN /\ h2_pc' = "download"
            /\ UNCHANGED h2_msg
       ELSE IF h2_cand.detail_url = NoneStr
       THEN Step2End(Failure(Exc("RuntimeError", "no_detail_url"), "detail"))
       ELSE /\ h2_pc' = "html"
            /\ UNCHANGED h2_msg
    /\ UNCHANGED <<h2_cand, h2_text>>
    /\ UNCHANGED <<stVars, h1Vars, smVars>>
    /\ UNCHANGED notSt2

\* line 607-613: the HTML phase
Step2Html ==
    /\ h2_pc = "html"
    /\ \E resp \in DetailPageResponses :
         /\ h2_net' = Append(h2_net, Net("detail_page", resp.err = NoneStr))
         /\ IF resp.err # NoneStr
            THEN /\ Step2End(Failure(Exc(resp.err, resp.err), "html"))
                 /\ UNCHANGED h2_pdf_url
            ELSE /\ h2_pdf_url' = pick_best_pdf_link(PageLinks(resp.page))
                 /\ IF pick_best_pdf_link(PageLinks(resp.page)) = NoneStr
                    THEN Step2End(Failure(Exc("RuntimeError", "no_pdf_link"), "html"))
                    ELSE /\ h2_pc' = "download"
                         /\ UNCHANGED h2_msg
    /\ UNCHANGED <<h2_cand, h2_text>>
    /\ UNCHANGED <<stVars, h1Vars, dpVars, smVars>>
    /\ UNCHANGED notSt2

\* line 615-633: download, text extraction, the OpenAI client
Step2Download ==
    /\ h2_pc = "download"
    /\ \E resp \in DownloadResponses :
         LET t    == extract_text_from_pdf(resp.pdf)
             text == Strip(t.value)
             c    == get_openai_client(has_key)
         IN  /\ h2_net' = Append(h2_net, Net("pdf_download", resp.err = NoneStr))
             /\ IF resp.err # NoneStr
                THEN /\ Step2End(Failure(Exc(resp.err, resp.err), "download"))
                     /\ UNCHANGED <<h2_text, smVars>>
                ELSE IF t.exc # NoExc
                THEN /\ Step2End(Failure(t.exc, "extract"))
                     /\ UNCHANGED <<h2_text, smVars>>
                ELSE IF text = <<>>
                THEN /\ Step2End(Failure(Exc("RuntimeError", "no_text"), "extract"))
                     /\ UNCHANGED <<h2_text, smVars>>
                ELSE IF c # NoExc
                THEN /\ Step2End(Failure(c, "client"))
                     /\ h2_text' = text
                     /\ UNCHANGED smVars
                ELSE /\ h2_text' = text
                     /\ CallSum(text)
                     /\ h2_pc' = "summarize"
                     /\ UNCHANGED h2_msg
    /\ UNCHANGED <<h2_cand, h2_pdf_url>>
    /\ UNCHANGED <<stVars, h1Vars, dpVars>>
    /\ UNCHANGED notSt2

\* line 633-646: the summary is back, or the SDK raised
Step2AfterSum ==
    /\ h2_pc = "summarize"
    /\ sm_pc \in {"returned", "raised"}
    /\ h2_net' = Append(h2_net, Net("llm", sm_pc = "returned"))
    /\ IF sm_pc = "raised"
       THEN Step2End(Failure(Exc("APIError", "APIError"), "summarize"))
       ELSE Step2End(Outcome("ok", "summary", "done"))
    /\ LeaveSum
    /\ UNCHANGED <<h2_cand, h2_pdf_url, h2_text>>
    /\ UNCHANGED <<stVars, h1Vars, dpVars>>
    /\ UNCHANGED notSt2

\* the script reruns: the page is drawn again, the run's locals are gone
Step2Rerun ==
    /\ h2_pc = "done"
    /\ h2_pc' = "idle"
    /\ h2_cand' = NoCand
    /\ h2_pdf_url' = NoneStr
    /\ h2_text' = <<>>
    /\ h2_net' = <<>>
    /\ h2_msg' = NoOutcome
    /\ UNCHANGED <<stVars, h1Vars, dpVars, smVars>>
    /\ UNCHANGED notSt2

(***************************************************************************)
(* Specifications                                                          *)
(***************************************************************************)
\* one browser session
Init == SessionInit /\ ProbeIdle /\ DetailIdle /\ SumIdle /\ ChunkIdle /\ JsonIdle

Next ==
    \/ Step1Click
    \/ Step1Probe
    \/ Step1FetchList
    \/ Step1Rerun
    \/ Step2Click
    \/ DetailBegin
    \/ DetailGet
    \/ DetailPost
    \/ Step2AfterDetail
    \/ Step2Html
    \/ Step2Download
    \/ SumChunk
    \/ SumReturnPartial
    \/ SumAggregate
    \/ Step2AfterSum
    \/ Step2Rerun

Spec == Init /\ [][Next]_vars

\* probe_report_list_api alone
InitProbe == ProbeCalled /\ SessionIdle /\ DetailIdle /\ SumIdle /\ ChunkIdle /\ JsonIdle
NextProbe == ProbeFetchType \/ ProbeCandidate
SpecProbe == InitProbe /\ [][NextProbe]_vars

\* probe_detail_api_for_pdf alone
DetailItems ==
    {JDict(<<>>)}
    \cup {JDict(<<Entry(k, v)>>) :
            k \in {"reportNo", "seq", "reportFormNo", "title"}, v \in {JStr("R1"), JNull}}
    \cup {JDict(<<Entry("seq", JStr("7")), Entry("reportNo", JStr("R1"))>>)}

InitDetail ==
    /\ \E item \in DetailItems, apba_id \in {"", APBA_ID}, report_root \in {"", REPORT_ROOT},
          apba_type \in {NoneStr, "1"} :
            DetailCalled(DetailArgs(item, apba_id, report_root, apba_type))
    /\ SessionIdle /\ ProbeIdle /\ SumIdle /\ ChunkIdle /\ JsonIdle
NextDetail == DetailBegin \/ DetailGet \/ DetailPost
SpecDetail == InitDetail /\ [][NextDetail]_vars

\* summarize_kwater_standard_a alone
InitSum ==
    /\ \E text \in Texts : SumCalled(text)
    /\ SessionIdle /\ ProbeIdle /\ DetailIdle /\ ChunkIdle /\ JsonIdle
NextSum == SumChunk \/ SumReturnPartial \/ SumAggregate
SpecSum == InitSum /\ [][NextSum]_vars

\* chunk_text alone
InitChunk == ChunkInit /\ SessionIdle /\ ProbeIdle /\ DetailIdle /\ SumIdle /\ JsonIdle
NextChunk == ChunkIterate \/ ChunkReturn
SpecChunk == InitChunk /\ [][NextChunk]_vars

\* chunk_text alone, run by an interpreter that keeps executing: a loop
\* iteration or the return that can be taken is taken
SpecChunkRun == InitChunk /\ [][NextChunk]_vars /\ WF_vars(NextChunk)

\* extract_list_from_json alone
InitJson == JsonInit /\ SessionIdle /\ ProbeIdle /\ DetailIdle /\ SumIdle /\ ChunkIdle
NextJson == ExtractList
SpecJson == InitJson /\ [][NextJson]_vars

\* the outcomes the list handler draws for probe_report_list_api are the
\* outcomes the function has (checked under SpecProbe)
ProbeOutcomesCovered ==
    /\ pr_pc = "returned" => pr_result \in ProbeReturns
    /\ pr_pc = "raised" => pr_exc \in ProbeRaises

(***************************************************************************)
(* Properties of probe_report_list_api (SpecProbe)                         *)
(***************************************************************************)
\* the i-th candidate of the declared order: endpoints outermost, then the
\* payload shapes, then the apbaType candidates
CandidateAt(i, types) ==
    LET nt == Len(types)
        np == Len(PAYLOAD_SETS)
    IN  [e |-> ((i - 1) \div (np * nt)) + 1,
         p |-> (((i - 1) \div nt) % np) + 1,
         t |-> ((i - 1) % nt) + 1]

\* the requests to list endpoints issued so far (the log without the
\* apbaType page fetch)
Tried == IF pr_log = <<>> THEN <<>> ELSE Tail(pr_log)

\* C1: the candidates are requested in declaration order; the function
\* returns exactly when a response is JSON with a non-empty list, its result
\* names that candidate, and nothing is requested after it.
C1_FirstMatchWins ==
    /\ \A i \in 1..Len(Tried) :
         LET c == CandidateAt(i, pr_types)
         IN  /\ Tried[i].endpoint = LIST_ENDPOINT_CANDIDATES[c.e].url
             /\ Tried[i].payloadSet = c.p
             /\ Tried[i].apbaType = pr_types[c.t]
    /\ \A i \in 1..(Len(Tried) - 1) : ~Tried[i].matched
    /\ (pr_pc = "returned") <=> (Tried # <<>> /\ Tried[Len(Tried)].matched)
    /\ pr_pc = "returned" =>
         LET last == Tried[Len(Tried)]
         IN  /\ pr_result.endpoint = last.endpoint
             /\ pr_result.apba_type = last.apbaType
             /\ pr_result.payload.apbaType = last.apbaType
             /\ pr_result.payload.pageKey = PAYLOAD_SETS[last.payloadSet].page
             /\ pr_result.payload.sizeKey = PAYLOAD_SETS[last.payloadSet].size

\* the second endpoint matched after every candidate of the first one was
\* skipped, one of them with an exception
C1_Witness ==
    /\ pr_pc = "returned"
    /\ pr_result.endpoint = LIST_ENDPOINT_CANDIDATES[2].url
    /\ pr_last_err # NoneStr
    /\ Len(Tried) > Len(PAYLOAD_SETS) * Len(pr_types)

\* C2: a transport failure of any request of probe_report_list_api, the
\* apbaType page fetch included, is surfaced only after every candidate
\* combination has been tried.
C2_FailureOnlyAfterAllTried ==
    pr_pc = "raised" =>
        /\ Len(Tried) >= Len(LIST_ENDPOINT_CANDIDATES) * Len(PAYLOAD_SETS)
                            * Len(FALLBACK_APBA_TYPES)
        /\ pr_exc = Exc("RuntimeError", "probe_exhausted")

(***************************************************************************)
(* Properties of the summarize handler (Spec)                              *)
(***************************************************************************)
\* C3: when the API key is missing the action fails with the
\* missing-credential error before any network request of the action.
C3_FailsFastBeforeNetwork ==
    (h2_pc = "done" /\ h2_msg.msg = "no_api_key") => h2_net = <<>>

\* the run ended without a PDF URL: neither phase found a link
NoPdfResolved == h2_pc = "done" /\ h2_msg.at \in {"detail", "html"}

\* C4 (as stated): whenever neither phase finds a PDF link, also when the
\* detail page cannot be fetched or the candidate has no detail URL, the
\* message is the "no PDF link found" message and no exception escapes.
C4_NoPdfMessage ==
    NoPdfResolved =>
        /\ h2_pdf_url = NoneStr
        /\ h2_msg.status = "error"
        /\ h2_msg.msg = "no_pdf_link"

\* C4 (amended): whenever neither phase finds a PDF link, no PDF URL is
\* resolved and no exception escapes the handler; the message is the
\* "no PDF link found" message when the detail page was fetched and holds
\* no link, the "no detail URL" message when the candidate has no detail
\* URL (no page is requested), and the transport error's own message when
\* the detail-page fetch fails.
C4_NoPdfAmended ==
    NoPdfResolved =>
        /\ h2_pdf_url = NoneStr
        /\ h2_msg.status = "error"
        /\ IF h2_cand.detail_url = NoneStr THEN h2_msg.msg = "no_detail_url"
           ELSE IF h2_net[Len(h2_net)] = Net("detail_page", TRUE)
           THEN h2_msg.msg = "no_pdf_link"
           ELSE h2_msg.msg \in TransportErrors
        /\ h2_cand.detail_url = NoneStr =>
             \A i \in 1..Len(h2_net) : h2_net[i].kind # "detail_page"
        /\ h2_cand.detail_url # NoneStr => h2_net[Len(h2_net)].kind = "detail_page"

\* the JSON phase issued requests and found nothing, the detail page was
\* fetched and holds no link
C4_Witness ==
    /\ NoPdfResolved
    /\ h2_net = <<Net("detail_api", TRUE), Net("detail_page", TRUE)>>
    /\ h2_msg = Outcome("error", "no_pdf_link", "html")

(***************************************************************************)
(* Properties of chunk_text (SpecChunk)                                    *)
(***************************************************************************)
\* chunk[overlap:]
DropOverlap(chunk, overlap) == PySlice(chunk, overlap, Len(chunk))

RECURSIVE Reassemble(_, _)
\* the first chunk followed by each later chunk without its first `overlap`
\* characters
Reassemble(chunks, overlap) ==
    IF Len(chunks) = 0 THEN <<>>
    ELSE IF Len(chunks) = 1 THEN chunks[1]
    ELSE Reassemble(SubSeq(chunks, 1, Len(chunks) - 1), overlap)
            \o DropOverlap(chunks[Len(chunks)], overlap)

\* C5: whenever 0 <= overlap < max_chars, the chunks chunk_text returns
\* reassemble to the input text: the first chunk, then every later chunk
\* with its first `overlap` characters removed.
C5_Reassembly ==
    (ck_pc = "done" /\ ck_overlap < ck_max_chars)
        => Reassemble(ck_chunks, ck_overlap) = ck_text

\* a returned run with several overlapping chunks of a text of two letters
C5_Witness ==
    /\ ck_pc = "done"
    /\ ck_overlap > 0
    /\ ck_overlap < ck_max_chars
    /\ Len(ck_chunks) >= 3
    /\ \E i \in 1..Len(ck_text) : ck_text[i] # ck_text[1]

\* C6 (as stated): every text shorter than max_chars, the empty text
\* included, yields exactly one chunk, equal to the text.
C6_ShortTextOneChunk ==
    (ck_pc = "done" /\ Len(ck_text) < ck_max_chars) => ck_chunks = <<ck_text>>

\* C6 (amended): a non-empty text shorter than max_chars yields exactly one
\* chunk, equal to the text; the empty text yields no chunk at all.
C6_ShortTextAmended ==
    (ck_pc = "done" /\ Len(ck_text) < ck_max_chars)
        => ck_chunks = (IF Len(ck_text) = 0 THEN <<>> ELSE <<ck_text>>)

\* a text of two characters under a window of three
C6_Witness ==
    /\ ck_pc = "done"
    /\ Len(ck_text) = 2
    /\ ck_max_chars = 3
    /\ ck_chunks = <<ck_text>>

\* C10: for every max_chars >= 1 and overlap >= 0 the start index is not
\* negative when a loop iteration begins.
C10_StartNeverNegative ==
    (ck_pc = "loop" /\ ChunkLoopCond(ck_start, Len(ck_text))) => ck_start >= 0

(***************************************************************************)
(* Properties of extract_list_from_json (SpecJson)                         *)
(***************************************************************************)
\* the lists data holds under a recognised key at the top level
TopLists(data) ==
    {[items |-> data.v[i].val, key |-> data.v[i].k] :
        i \in {j \in 1..Len(data.v) :
                 data.v[j].k \in ListKeySet /\ data.v[j].val.t = "list"}}

\* the lists data holds under a recognised key exactly one level down
NestedLists(data) ==
    UNION {
        {[items |-> data.v[i].val.v[j].val,
          key   |-> data.v[i].k \o "." \o data.v[i].val.v[j].k] :
            j \in {m \in 1..Len(data.v[i].val.v) :
                     data.v[i].val.v[m].k \in ListKeySet
                     /\ data.v[i].val.v[m].val.t = "list"}} :
        i \in {m \in 1..Len(data.v) : data.v[m].val.t = "dict"}}

\* C7: a mapping {k: [...]} with k a recognised alias gives that list with
\* key path k; with no list under a recognised key at the top level, a list
\* under a recognised key exactly one level down is returned with key path
\* "outer.inner"; a list three or more levels down is never found: with no
\* list at either place the result is (None, None).
C7_ListLocation ==
    (js_pc = "returned" /\ js_data.t = "dict") =>
        LET r == [items |-> js_items, key |-> js_key]
        IN  /\ (Len(js_data.v) = 1 /\ TopLists(js_data) # {}) => r \in TopLists(js_data)
            /\ TopLists(js_data) # {} => r \in TopLists(js_data)
            /\ (TopLists(js_data) = {} /\ NestedLists(js_data) # {})
                    => r \in NestedLists(js_data)
            /\ (TopLists(js_data) = {} /\ NestedLists(js_data) = {}) => r = NoList

\* {"result": {"rows": [...]}} gives the list with key path "result.rows"
C7_Witness ==
    /\ js_pc = "returned"
    /\ js_data = JDict(<<Entry("result", JDict(<<Entry("rows", JList(<<JStr("e")>>))>>))>>)
    /\ js_key = "result.rows"
    /\ js_items = JList(<<JStr("e")>>)

(***************************************************************************)
(* Properties of summarize_kwater_standard_a (SpecSum)                     *)
(***************************************************************************)
\* C8 (as stated): for n >= 1 chunks exactly n + 1 LLM requests are issued.
C8_RequestsChunksPlusOne ==
    (sm_pc = "returned" /\ Len(sm_chunks) >= 1)
        => Len(sm_requests) = Len(sm_chunks) + 1

\* C8 (amended): for n >= 2 chunks exactly n + 1 LLM requests are issued,
\* one per chunk in chunk order and then one over the per-chunk outputs
\* joined by blank lines, whose output is the summary; for n = 1 the only
\* request is the chunk's, and its output is the summary.
C8_RequestsAmended ==
    (sm_pc = "returned" /\ Len(sm_chunks) >= 1) =>
        LET n == Len(sm_chunks)
        IN  /\ \A i \in 1..n :
                 /\ sm_requests[i].input = sm_chunks[i]
                 /\ sm_partial[i] = Strip(sm_requests[i].output)
            /\ Len(sm_requests) = (IF n = 1 THEN 1 ELSE n + 1)
            /\ n > 1 => sm_requests[n + 1].input = Join(<<"\n", "\n">>, sm_partial)
            /\ sm_result = Strip(sm_requests[Len(sm_requests)].output)

\* three chunks, four requests
C8_Witness ==
    /\ sm_pc = "returned"
    /\ Len(sm_chunks) = 3
    /\ Len(sm_requests) = 4

(***************************************************************************)
(* Properties of probe_detail_api_for_pdf (SpecDetail)                     *)
(***************************************************************************)
\* C9: in every (endpoint, params) iteration the GET is followed by a POST
\* unless the GET yielded a PDF URL.
C9_GetThenPost ==
    (dp_pc \in {"get", "returned"} /\ Len(dp_last) = 1)
        => dp_last[1].pdf # NoneStr


(***************************************************************************)
(* Properties of the session state (Spec)                                  *)
(***************************************************************************)
\* a run of the list handler ends in this step, in failure
ListFetchFails ==
    /\ h1_pc # "done"
    /\ h1_pc' = "done"
    /\ h1_msg'.status # "ok"

\* C11: after every run of the list handler, failed runs included, no
\* candidate of an earlier list fetch remains in the session: a run that
\* ends in failure, and so fetched no candidates, leaves none stored.
C11_CandidatesLiveOneCycle ==
    [][ListFetchFails => st_candidates' = <<>>]_vars

\* C12: after any sequence of list-fetch and summarize actions, a non-empty
\* session candidate list implies the session probe is set, and the
\* summarize handler never ends in its "run list fetch first" guard.
C12_CandidatesImplyProbe ==
    /\ st_candidates # <<>> => st_probe # NoProbe
    /\ h2_msg # Failure(Exc("RuntimeError", "run_list_first"), "guard")

\* the summarize button was clicked with candidates stored, and the run is
\* past the guard
C12_Witness ==
    /\ st_candidates # <<>>
    /\ h2_pc = "detail_probe"
    /\ h2_cand \in {st_candidates[i] : i \in 1..Len(st_candidates)}

(***************************************************************************)
(* Termination of chunk_text (SpecChunkRun)                                *)
(***************************************************************************)
\* the step is a loop iteration: a chunk was appended
IsIteration == ck_chunks' # ck_chunks

\* overlap >= max_chars and the text is longer than max_chars
StartCannotAdvance ==
    /\ ck_pc \in {"loop", "done"}
    /\ ck_overlap >= ck_max_chars
    /\ Len(ck_text) > ck_max_chars

\* C13: whenever 0 <= overlap < max_chars every loop iteration strictly
\* increases the start index and chunk_text returns, for every text; when
\* overlap >= max_chars and the text is longer than max_chars no iteration
\* advances the start index, the loop condition stays true and chunk_text
\* never returns (explored for MaxIter iterations beyond the text's length).
C13_Termination ==
    /\ [][(IsIteration /\ ck_overlap < ck_max_chars) => ck_start' > ck_start]_vars
    /\ (ck_pc = "loop" /\ ck_overlap < ck_max_chars) ~> (ck_pc = "done")
    /\ [][(IsIteration /\ StartCannotAdvance) => ck_start' <= ck_start]_vars
    /\ [](StartCannotAdvance =>
            (ck_pc = "loop" /\ ChunkLoopCond(ck_start, Len(ck_text))))

\* a run with overlapping windows has returned after several iterations
C13_Witness ==
    /\ ck_pc = "done"
    /\ ck_overlap > 0
    /\ ck_overlap < ck_max_chars
    /\ Len(ck_text) > ck_max_chars
    /\ Len(ck_chunks) >= 2
    /\ ck_start = Len(ck_text)
====
